---------------------------- MODULE Spec2Model ----------------------------
(***************************************************************************)
(* A model of the PvP quiz application: the two quiz components            *)
(* (ComprehensionBattle, SpellingBee) under GameRouter, the PvP page that  *)
(* turns a finished game into an EXP update of the profile row, the        *)
(* profiles table with its rank trigger, and the matchmaking queue hook.   *)
(*                                                                         *)
(* React components are modelled at the granularity of the event loop:     *)
(* one action is one event handler, timer callback or promise completion   *)
(* together with the render and the effects that follow it.  A handler     *)
(* reads the state of the render it was created in, which for handlers     *)
(* attached to the current render is the current state; the state updates  *)
(* it schedules are applied together when it returns.                      *)
(***************************************************************************)
EXTENDS Integers, Sequences, FiniteSets

(***************************************************************************)
(* Bounds of the model.                                                    *)
(***************************************************************************)
\* largest number of questions/words for which calculateExpGained is tabulated
MaxTotal == 10
\* update_user_rank is applied to exp values in -RankExpRange .. RankExpRange
RankExpRange == 120

\* operations that lead to an exp update in one behaviour of the page: games
\* started (Start buttons and Play Again) plus updateUserExp calls
MaxOps == 2
\* largest number of questions/words of a game whose result reaches the page
MaxGameTotal == 1

\* seconds of ComprehensionBattle's reading and question countdowns and of
\* SpellingBee's countdown (120, 300 and 180 in the source, scaled down)
CBReadingTime == 1
CBQuestionTime == 1
SBTime == 1
\* the modelled user clicks the options 0 .. MaxOption of a question (of 0..3)
MaxOption == 1
\* joinQueue and leaveQueue calls made, over all players
MaxQueueOps == 3
\* invocations of match_players
MaxMatchRuns == 1

GameModes == {"comprehension", "spellbee"}
NoMode == "none"

\* accounts; u1 is the user signed in on the PvP page
Users == {"u1", "u2"}
Me == "u1"
\* the players that use the matchmaking queue
Players == {"u1", "u2", "u3"}
\* exp of the signed-in user's row when the page is opened
StartExps == {85}
\* the gains updateUserExp is called with
UeGains == {100}

VARIABLES
    \* ---- calculateExpGained applied to score = 0, 1, ..., total
    fnMode, fnTotal, fnScore, fnGained,
    \* ---- update_user_rank applied to two rows
    rkExp1, rkExp2, rkRanks,
    \* ---- table public.profiles: user id -> row (exp, rank)
    profiles,
    \* update requests on profiles sent by the page and not yet executed
    expRequests,
    \* updateUserExp calls: their position and the exp they read
    ueCalls,
    \* ---- PvP page (state of the component) and the profile useProfile holds
    selectedMode, matchmaking, inGame, matchTimers, profile,
    \* ---- GameRouter
    gameCompleted, gameResults,
    \* ---- history: the games finished so far, the games whose update the
    \* database executed, the exp of the row when the page was opened
    gameLog, appliedGames, expAtStart, gamesStarted,
    \* ---- the game components: their useState values
    cb, sb,
    \* ---- history: onGameEnd invocations of the game instance, and the state
    \* the handler that made the invocation ran with
    endCalls, endSnapshot,
    \* ---- history: the question that was on screen when the option now
    \* selected was chosen, and the same for every recorded answer
    answerOrigin,
    \* ---- table public.matchmaking_queue (a set of rows) and the ids used
    queue, rowsInserted,
    \* ---- useMatchmaking: its state, its joinQueue and leaveQueue calls in
    \* flight, and (history) what the last leaveQueue that returned left behind
    mm, mmCalls, subscriptions, leaveDone, queueOps,
    \* ---- which of the two CREATE TABLE matchmaking_queue statements made the
    \* table (TRUE: the one with UNIQUE(player_id, game_mode)); table
    \* public.active_games; (history) the pairs of queue entries match_players
    \* put into games, and the number of its invocations
    queueUnique, activeGames, matchLog, matchRuns,
    \* ---- useMatchmaking: timers of simulateMatch, match notifications on the
    \* way to the subscription's callback, whether the component is mounted;
    \* (history) whether leaveQueue completed and no joinQueue or simulateMatch
    \* was called since, and what the unmount cleanup found and did
    mmTimers, mmNotices, mmMounted, mmLeft, unmountLog,
    \* ---- aiService.generateResponse: the user's message, the position of the
    \* call, the index of the provider loop, the console output, the outcome,
    \* and (history) the sources consulted so far
    aiMessage, aiPc, aiIndex, aiConsole, aiResult, aiConsulted

fnVars == <<fnMode, fnTotal, fnScore, fnGained>>
rkVars == <<rkExp1, rkExp2, rkRanks>>
dbVars == <<profiles, expRequests, ueCalls>>
pageVars == <<selectedMode, matchmaking, inGame, matchTimers, profile>>
routerVars == <<gameCompleted, gameResults>>
histVars == <<gameLog, appliedGames, expAtStart, gamesStarted>>
pvpVars == <<dbVars, pageVars, routerVars, histVars>>
gameVars == <<cb, sb, endCalls, endSnapshot, answerOrigin>>
tableVars == <<queueUnique, activeGames, matchLog, matchRuns>>
hookVars == <<mmTimers, mmNotices, mmMounted, mmLeft, unmountLog>>
mqVars == <<queue, rowsInserted, mm, mmCalls, subscriptions, leaveDone, queueOps,
            tableVars, hookVars>>
aiVars == <<aiMessage, aiPc, aiIndex, aiConsole, aiResult, aiConsulted>>
vars == <<fnVars, rkVars, pvpVars, gameVars, mqVars, aiVars>>

(***************************************************************************)
(* Pure functions.                                                         *)
(***************************************************************************)

\* Math.round(baseExp + maxBonus * (score / total)) for 0 <= score, 1 <= total.
\* Math.round rounds to the nearest integer, halves upwards:
\* round(b + 15 s/t) = b + floor((30 s + t) / (2 t)).  (For total <= 399 the
\* IEEE double computation of the source gives the same integers.)
\* The same function is repeated in GameRouter.tsx 93-99 and in useMatches.
calculateExpGainedWrong(score, total, gameMode) ==
    LET baseExp == IF gameMode = "comprehension" THEN 10 ELSE 15
        maxBonus == IF gameMode = "comprehension" THEN 15 ELSE 15
    IN  baseExp + ((2 * maxBonus * (total - score) + total) \div (2 * total))

calculateExpGained(score, total, gameMode) ==
    LET baseExp == IF gameMode = "comprehension" THEN 10 ELSE 15
        maxBonus == IF gameMode = "comprehension" THEN 15 ELSE 15
    IN  baseExp + ((2 * maxBonus * score + total) \div (2 * total))

\* PostgreSQL integer division truncates towards zero.
IntDiv(a, b) ==
    IF a >= 0 THEN a \div b ELSE -((-a) \div b)

\* PostgreSQL GREATEST of two non-null integers.
GREATEST(a, b) == IF a >= b THEN a ELSE b

\* A profiles row, as far as exp and rank go.  exp is INTEGER DEFAULT 0 and
\* nullable: expNull says that exp IS NULL (exp is then kept at 0).
ProfileRow(exp, expNull, rank) == [exp |-> exp, expNull |-> expNull, rank |-> rank]

\* The row a signup inserts: handle_new_user names no exp or rank, so the
\* column defaults apply (no trigger runs on INSERT).
NewProfileRow == ProfileRow(0, FALSE, 1)

\* Trigger function update_user_rank: NEW.rank = GREATEST(1, NEW.exp / 100 + 1).
\* GREATEST ignores NULL arguments, so a NULL exp gives rank 1.
update_user_rank_NoGreatest(new) ==
    [new EXCEPT !.rank = IF new.expNull THEN 1 ELSE IntDiv(new.exp, 100) + 1]

update_user_rank(new) ==
    [new EXCEPT !.rank = IF new.expNull THEN 1
                         ELSE GREATEST(1, IntDiv(new.exp, 100) + 1)]

\* GameRouter's gameResults: null, or <<the results object>>
NoResults == <<>>

\* a JS value that is a number or null: <<n>> or <<>>
Null == <<>>
Num(n) == <<n>>

\* ComprehensionBattle's state at its first render (useState initial values)
CBInitial ==
    [ questions |-> <<>>, currentQuestion |-> 0, selectedAnswer |-> "",
      answers |-> <<>>, timeLeft |-> CBQuestionTime, gamePhase |-> "loading",
      readingTimeLeft |-> CBReadingTime, score |-> 0 ]

\* SpellingBee's state at its first render.  Strings are sequences of
\* characters.
SBInitial ==
    [ words |-> <<>>, loading |-> TRUE, currentWord |-> 0, userInput |-> <<>>,
      answers |-> <<>>, timeLeft |-> SBTime, gamePhase |-> "playing",
      score |-> 0 ]

NoSnapshot == <<>>

\* no option is selected and no answer is recorded
NoQuestion == -1
NoOrigin == [ selected |-> NoQuestion, answers |-> <<>> ]

\* the variables of the game components, when unused
GameIdle ==
    /\ cb = CBInitial
    /\ sb = SBInitial
    /\ endCalls = 0
    /\ endSnapshot = NoSnapshot
    /\ answerOrigin = NoOrigin

\* the variables of the page, the router and the database, when unused
PvpIdle ==
    /\ profiles = [u \in {Me} |-> NewProfileRow]
    /\ expRequests = <<>>
    /\ ueCalls = <<>>
    /\ selectedMode = NoMode
    /\ matchmaking = FALSE
    /\ inGame = FALSE
    /\ matchTimers = 0
    /\ profile = NewProfileRow
    /\ gameCompleted = FALSE
    /\ gameResults = NoResults
    /\ gameLog = <<>>
    /\ appliedGames = {}
    /\ expAtStart = 0
    /\ gamesStarted = 0

\* useMatchmaking's state at its first render
MMInitial ==
    [ isQueued |-> FALSE, isMatched |-> FALSE, gameId |-> "null",
      opponent |-> "null", estimatedWaitTime |-> 30 ]

NoLeave == <<>>
NoUnmount == <<>>

\* the variables of the matchmaking hook and its table, when unused
QueueIdle ==
    /\ queue = {}
    /\ rowsInserted = 0
    /\ mm = MMInitial
    /\ mmCalls = <<>>
    /\ subscriptions = 0
    /\ leaveDone = NoLeave
    /\ queueOps = 0
    /\ queueUnique = FALSE
    /\ activeGames = <<>>
    /\ matchLog = <<>>
    /\ matchRuns = 0
    /\ mmTimers = 0
    /\ mmNotices = {}
    /\ mmMounted = TRUE
    /\ mmLeft = FALSE
    /\ unmountLog = NoUnmount

\* no generateResponse call
NoResponse == <<>>

AiIdle ==
    /\ aiMessage = "plain"
    /\ aiPc = "idle"
    /\ aiIndex = 0
    /\ aiConsole = <<>>
    /\ aiResult = NoResponse
    /\ aiConsulted = <<>>

(***************************************************************************)
(* SpecExp: calculateExpGained tabulated over score = 0 .. total.          *)
(***************************************************************************)
FnIdle ==
    /\ fnMode = "comprehension"
    /\ fnTotal = 1
    /\ fnScore = 0
    /\ fnGained = <<>>

RkIdle ==
    /\ rkExp1 = 0
    /\ rkExp2 = 0
    /\ rkRanks = <<>>

InitExp ==
    /\ fnMode \in GameModes
    /\ fnTotal \in 1..MaxTotal
    /\ fnScore = 0
    /\ fnGained = <<>>
    /\ RkIdle
    /\ PvpIdle
    /\ GameIdle
    /\ QueueIdle
    /\ AiIdle

\* one more call, with the next score
CalcNext ==
    /\ fnScore <= fnTotal
    /\ fnGained' = Append(fnGained, calculateExpGained(fnScore, fnTotal, fnMode))
    /\ fnScore' = fnScore + 1
    /\ UNCHANGED <<fnMode, fnTotal, rkVars, aiVars, pvpVars, gameVars, mqVars>>

NextExp == CalcNext

SpecExp == InitExp /\ [][NextExp]_vars

\* C5: for each game mode and each total >= 1, calculateExpGained(score, total,
\* mode) is non-decreasing in score over 0..total.
C5_ExpMonotonic ==
    \A i \in DOMAIN fnGained : \A j \in DOMAIN fnGained :
        i <= j => fnGained[i] <= fnGained[j]

\* the whole table of a game with several questions is computed, and the
\* full score earns strictly more than the empty one
C5_Witness ==
    /\ fnTotal >= 3
    /\ Len(fnGained) = fnTotal + 1
    /\ fnGained[1] < fnGained[fnTotal + 1]

(***************************************************************************)
(* SpecRank: update_user_rank applied to two rows with exp1 <= exp2.       *)
(***************************************************************************)
InitRank ==
    /\ rkExp1 \in (0 - RankExpRange)..RankExpRange
    /\ rkExp2 \in rkExp1..RankExpRange
    /\ rkRanks = <<>>
    /\ FnIdle
    /\ PvpIdle
    /\ GameIdle
    /\ QueueIdle
    /\ AiIdle

\* the trigger fires for both rows (the rank a row held before is overwritten)
RankBoth ==
    /\ rkRanks = <<>>
    /\ rkRanks' = << update_user_rank(ProfileRow(rkExp1, FALSE, 1)).rank,
                     update_user_rank(ProfileRow(rkExp2, FALSE, 1)).rank >>
    /\ UNCHANGED <<rkExp1, rkExp2, fnVars, aiVars, pvpVars, gameVars, mqVars>>

NextRank == RankBoth

SpecRank == InitRank /\ [][NextRank]_vars

\* C6: the rank computed by update_user_rank is non-decreasing in exp (integer
\* division truncating as PostgreSQL does) and never below 1.
C6_RankMonotonic ==
    rkRanks # <<>> =>
        /\ rkRanks[1] <= rkRanks[2]
        /\ rkRanks[1] >= 1
        /\ rkRanks[2] >= 1

\* a pair on both sides of 0 and of a multiple of 100, ranks differing
C6_Witness ==
    /\ rkRanks # <<>>
    /\ rkExp1 < 0
    /\ rkExp2 >= 100
    /\ rkRanks[1] < rkRanks[2]

(***************************************************************************)
(* The profiles table.                                                     *)
(***************************************************************************)
\* the sequence without its i-th element
RemoveAt(seq, i) ==
    [k \in 1..(Len(seq) - 1) |-> IF k < i THEN seq[k] ELSE seq[k + 1]]

\* trigger update_rank_on_exp_change: BEFORE UPDATE OF exp ... FOR EACH ROW
\* EXECUTE FUNCTION update_user_rank().  The row u after UPDATE SET exp = ...
UpdateExpMissingTrigger(u, exp, expNull) ==
    [profiles EXCEPT ![u] = [@ EXCEPT !.exp = exp, !.expNull = expNull]]

UpdateExp(u, exp, expNull) ==
    [profiles EXCEPT ![u] =
        update_user_rank([@ EXCEPT !.exp = exp, !.expNull = expNull])]

\* on_auth_user_created / handle_new_user: a signup inserts the profile row
SignUp(u) ==
    /\ u \notin DOMAIN profiles
    /\ profiles' = [x \in DOMAIN profiles \cup {u} |->
                        IF x = u THEN NewProfileRow ELSE profiles[x]]
    /\ UNCHANGED <<expRequests, ueCalls, pageVars, routerVars, histVars,
                   fnVars, rkVars, aiVars, gameVars, mqVars>>

\* the operations begun so far that end in an exp update
OpsUsed == gamesStarted + matchTimers + Len(ueCalls)

\* profile?.exp || 0, and profile.exp || 0 in updateUserExp
ExpOrZero(row) == IF row.expNull THEN 0 ELSE row.exp

(***************************************************************************)
(* useMatches.updateUserExp(expGained): select exp, then update exp.       *)
(***************************************************************************)
\* the call starts: the select request is sent
UeStart(u, expGained) ==
    /\ OpsUsed < MaxOps
    /\ u \in DOMAIN profiles
    /\ ueCalls' = Append(ueCalls,
            [user |-> u, expGained |-> expGained, pc |-> "select", newExp |-> 0])
    /\ UNCHANGED <<profiles, expRequests, pageVars, routerVars, histVars,
                   fnVars, rkVars, aiVars, gameVars, mqVars>>

\* the select is answered: newExp = (profile?.exp || 0) + expGained, and the
\* update request is sent
UeSelect(i) ==
    /\ i \in DOMAIN ueCalls
    /\ ueCalls[i].pc = "select"
    /\ ueCalls' = [ueCalls EXCEPT
            ![i].pc = "update",
            ![i].newExp = ExpOrZero(profiles[ueCalls[i].user]) + ueCalls[i].expGained]
    /\ UNCHANGED <<profiles, expRequests, pageVars, routerVars, histVars,
                   fnVars, rkVars, aiVars, gameVars, mqVars>>

\* the update is executed and answered: the call returns newExp
UeUpdate(i) ==
    /\ i \in DOMAIN ueCalls
    /\ ueCalls[i].pc = "update"
    /\ profiles' = UpdateExp(ueCalls[i].user, ueCalls[i].newExp, FALSE)
    /\ ueCalls' = [ueCalls EXCEPT ![i].pc = "done"]
    /\ UNCHANGED <<expRequests, pageVars, routerVars, histVars, fnVars, rkVars, aiVars, gameVars, mqVars>>

\* either request is answered with an error: logged and thrown
UeError(i) ==
    /\ i \in DOMAIN ueCalls
    /\ ueCalls[i].pc \in {"select", "update"}
    /\ ueCalls' = [ueCalls EXCEPT ![i].pc = "failed"]
    /\ UNCHANGED <<profiles, expRequests, pageVars, routerVars, histVars,
                   fnVars, rkVars, aiVars, gameVars, mqVars>>

(***************************************************************************)
(* The PvP page and GameRouter.                                            *)
(***************************************************************************)
\* what the page renders: GameRouter, the matchmaking card or the lobby
ViewOf(ig, mode, making) ==
    IF ig /\ mode # NoMode THEN "game"
    ELSE IF making THEN "matchmaking" ELSE "lobby"

View == ViewOf(inGame, selectedMode, matchmaking)

\* GameRouter renders the results card instead of the game component
ShowsResults == gameCompleted /\ gameResults # NoResults

\* a game component (ComprehensionBattle or SpellingBee) is mounted
GameMounted == View = "game" /\ ~ShowsResults

\* GameRouter's state when it mounts
RouterFresh ==
    /\ gameCompleted' = FALSE
    /\ gameResults' = NoResults

\* 1 when the change of the page's state mounts GameRouter, and a game with it
Mounts(ig, mode, making) ==
    IF View # "game" /\ ViewOf(ig, mode, making) = "game" THEN 1 ELSE 0

handleStartMatch(mode) ==
    /\ View = "lobby"
    /\ OpsUsed < MaxOps
    /\ selectedMode' = mode
    /\ matchmaking' = TRUE
    /\ matchTimers' = matchTimers + 1
    /\ gamesStarted' = gamesStarted + Mounts(inGame, mode, TRUE)
    /\ RouterFresh
    /\ UNCHANGED <<inGame, profile, dbVars, gameLog, appliedGames, expAtStart,
                   fnVars, rkVars, aiVars, gameVars, mqVars>>

\* the 3 s timeout of handleStartMatch
MatchTimerFires ==
    /\ matchTimers > 0
    /\ matchTimers' = matchTimers - 1
    /\ matchmaking' = FALSE
    /\ inGame' = TRUE
    /\ gamesStarted' = gamesStarted + Mounts(TRUE, selectedMode, FALSE)
    /\ IF View = "game" THEN UNCHANGED routerVars ELSE RouterFresh
    /\ UNCHANGED <<selectedMode, profile, dbVars, gameLog, appliedGames,
                   expAtStart, fnVars, rkVars, aiVars, gameVars, mqVars>>

\* the Cancel Matchmaking button
CancelMatchmaking ==
    /\ View = "matchmaking"
    /\ matchmaking' = FALSE
    /\ UNCHANGED <<selectedMode, inGame, matchTimers, profile, dbVars,
                   routerVars, histVars, fnVars, rkVars, aiVars, gameVars, mqVars>>

handleReturnToLobby ==
    /\ View = "game"
    /\ ShowsResults
    /\ inGame' = FALSE
    /\ selectedMode' = NoMode
    /\ matchmaking' = FALSE
    /\ RouterFresh
    /\ UNCHANGED <<matchTimers, profile, dbVars, histVars, fnVars, rkVars, aiVars, gameVars, mqVars>>

\* the page's handleGameEnd: newExp from the profile the page holds, sent as
\* update({ exp: newExp }).  With total = 0 the gain is NaN, which the request
\* body carries as null.
PageHandleGameEnd(score, total, gameMode) ==
    LET nan == total = 0
        expGained == IF nan THEN 0 ELSE calculateExpGained(score, total, gameMode)
        newExp == ExpOrZero(profile) + expGained
    IN  /\ expRequests' = Append(expRequests,
                [user |-> Me, exp |-> IF nan THEN 0 ELSE newExp, expNull |-> nan,
                 game |-> Len(gameLog) + 1])
        /\ gameLog' = Append(gameLog,
                [score |-> score, total |-> total, mode |-> gameMode])

\* GameRouter's handleGameEnd, the onGameEnd of the game component
RouterHandleGameEndStays(score, total) ==
    /\ gameResults' = <<[score |-> score, total |-> total, mode |-> selectedMode]>>
    /\ gameCompleted' = FALSE
    /\ PageHandleGameEnd(score, total, selectedMode)

RouterHandleGameEnd(score, total) ==
    /\ gameResults' = <<[score |-> score, total |-> total, mode |-> selectedMode]>>
    /\ gameCompleted' = TRUE
    /\ PageHandleGameEnd(score, total, selectedMode)

handlePlayAgain ==
    /\ View = "game"
    /\ ShowsResults
    /\ OpsUsed < MaxOps
    /\ gameCompleted' = FALSE
    /\ gameResults' = NoResults
    /\ gamesStarted' = gamesStarted + 1
    /\ UNCHANGED <<pageVars, dbVars, gameLog, appliedGames, expAtStart,
                   fnVars, rkVars, aiVars, gameVars, mqVars>>

\* the database executes an update request of the page
DbExecUpdate(i) ==
    /\ i \in DOMAIN expRequests
    /\ profiles' = UpdateExp(expRequests[i].user, expRequests[i].exp,
                             expRequests[i].expNull)
    /\ appliedGames' = appliedGames \cup {expRequests[i].game}
    /\ expRequests' = RemoveAt(expRequests, i)
    /\ UNCHANGED <<ueCalls, pageVars, routerVars, gameLog, expAtStart,
                   gamesStarted, fnVars, rkVars, aiVars, gameVars, mqVars>>

\* an update request fails (error answer): the page shows the error toast
DbFailUpdate(i) ==
    /\ i \in DOMAIN expRequests
    /\ expRequests' = RemoveAt(expRequests, i)
    /\ UNCHANGED <<profiles, ueCalls, pageVars, routerVars, histVars,
                   fnVars, rkVars, aiVars, gameVars, mqVars>>

\* useProfile fetches the row again
ProfileRefetch ==
    /\ profile # profiles[Me]
    /\ profile' = profiles[Me]
    /\ UNCHANGED <<selectedMode, matchmaking, inGame, matchTimers, dbVars,
                   routerVars, histVars, fnVars, rkVars, aiVars, gameVars, mqVars>>

\* a game component finishes and reports its result (the components themselves
\* are the subject of SpecGame).  Only SpellingBee can report total = 0.
GameEnds ==
    /\ GameMounted
    /\ \E total \in 0..MaxGameTotal : \E score \in 0..total :
        /\ total = 0 => selectedMode = "spellbee"
        /\ RouterHandleGameEnd(score, total)
    /\ UNCHANGED <<profiles, ueCalls, pageVars, appliedGames, expAtStart,
                   gamesStarted, fnVars, rkVars, aiVars, gameVars, mqVars>>

InitPvP ==
    /\ \E e \in StartExps :
        /\ profiles = [u \in {Me} |-> update_user_rank(ProfileRow(e, FALSE, 1))]
        /\ profile = update_user_rank(ProfileRow(e, FALSE, 1))
        /\ expAtStart = e
    /\ expRequests = <<>>
    /\ ueCalls = <<>>
    /\ selectedMode = NoMode
    /\ matchmaking = FALSE
    /\ inGame = FALSE
    /\ matchTimers = 0
    /\ gameCompleted = FALSE
    /\ gameResults = NoResults
    /\ gameLog = <<>>
    /\ appliedGames = {}
    /\ gamesStarted = 0
    /\ FnIdle
    /\ RkIdle
    /\ GameIdle
    /\ QueueIdle
    /\ AiIdle

NextPvP ==
    \/ \E u \in Users : SignUp(u)
    \/ \E u \in Users : \E g \in UeGains : UeStart(u, g)
    \/ \E i \in 1..MaxOps : UeSelect(i)
    \/ \E i \in 1..MaxOps : UeUpdate(i)
    \/ \E i \in 1..MaxOps : UeError(i)
    \/ \E mode \in GameModes : handleStartMatch(mode)
    \/ MatchTimerFires
    \/ CancelMatchmaking
    \/ handleReturnToLobby
    \/ handlePlayAgain
    \/ GameEnds
    \/ \E i \in 1..MaxOps : DbExecUpdate(i)
    \/ \E i \in 1..MaxOps : DbFailUpdate(i)
    \/ ProfileRefetch

SpecPvP == InitPvP /\ [][NextPvP]_vars

RECURSIVE SumGains(_)
\* the EXP gained in the games of a log, as the page computes and announces it
SumGains(log) ==
    IF log = <<>> THEN 0
    ELSE calculateExpGained(log[Len(log)].score, log[Len(log)].total,
                            log[Len(log)].mode)
         + SumGains(SubSeq(log, 1, Len(log) - 1))

\* C4: after any sequence of finished games on the PvP page (Play Again
\* included) the stored exp is its value before the first game plus the sum of
\* the EXP gained in each game.  Stated for the games with at least one
\* question whose updates the database has all executed, and with no
\* updateUserExp call for the same user.
C4_NoGainLost ==
    ( /\ gameLog # <<>>
      /\ expRequests = <<>>
      /\ appliedGames = 1..Len(gameLog)
      /\ \A g \in DOMAIN gameLog : gameLog[g].total >= 1
      /\ \A i \in DOMAIN ueCalls : ueCalls[i].user # Me )
    => /\ ~profiles[Me].expNull
       /\ profiles[Me].exp = expAtStart + SumGains(gameLog)

\* C7: in every reachable state each profile's rank is GREATEST(1, exp/100 + 1)
\* of its current exp (1 when exp is NULL): rank 1 below 100 exp, and otherwise
\* the rank r with 100 (r - 1) <= exp < 100 r.
C7_RankAgreesWithExp ==
    \A u \in DOMAIN profiles :
        LET row == profiles[u]
        IN  IF row.expNull \/ row.exp < 100
            THEN row.rank = 1
            ELSE /\ 100 * (row.rank - 1) <= row.exp
                 /\ row.exp < 100 * row.rank

\* an executed update of the page has taken the signed-in user past 100 exp,
\* and a second account exists
C7_Witness ==
    /\ appliedGames # {}
    /\ profiles[Me].exp >= 100
    /\ profiles[Me].rank = 2
    /\ "u2" \in DOMAIN profiles

(***************************************************************************)
(* ComprehensionBattle.  A question is represented by its correctAnswer.   *)
(*                                                                         *)
(* The question view is what the component renders in every phase other    *)
(* than reading and finished; it looks up questions[currentQuestion] and   *)
(* reads its fields, which throws when the lookup is undefined (as in the  *)
(* loading phase, where questions is empty).  The model follows the        *)
(* component's state past such a render: a render, effect or handler that  *)
(* throws is abandoned, the state stays as it was and the view offers no   *)
(* control.                                                                *)
(***************************************************************************)
\* the passages getRandomPassage('medium') may return, by their questions
DbPassages == { <<>>, <<1>>, <<0, 1>> }

\* the questions of loadFallbackContent
fallbackQuestions == <<1, 1, 1, 1, 1>>

\* index.toString() of the option values, and parseInt of such a value
OptionValues == <<"0", "1", "2", "3">>
toString(index) == OptionValues[index + 1]
parseInt(str) == CHOOSE n \in 0..3 : OptionValues[n + 1] = str

\* new Array(n).fill(v)
ArrayFill(n, v) == [i \in 1..n |-> v]

\* Array.prototype.slice(from, to) and slice(from), indices from 0
Slice(arr, from, to) ==
    LET lo == IF from < Len(arr) THEN from ELSE Len(arr)
        hi == IF to < Len(arr) THEN to ELSE Len(arr)
    IN  IF lo >= hi THEN <<>> ELSE SubSeq(arr, lo + 1, hi)

SliceFrom(arr, from) == Slice(arr, from, Len(arr))

Min(a, b) == IF a <= b THEN a ELSE b
Max(a, b) == IF a >= b THEN a ELSE b

\* the game component is mounted: GameRouter renders it
CBMounted == GameMounted /\ selectedMode = "comprehension"

\* the question view can be drawn
CBQuestionView(s) ==
    /\ s.gamePhase \notin {"reading", "finished"}
    /\ s.currentQuestion < Len(s.questions)

\* finishGame: the answers it scores
CBfinalAnswersNoSelection(s) == s.answers

CBfinalAnswers(s) ==
    IF s.selectedAnswer # ""
    THEN Slice(s.answers, 0, s.currentQuestion)
         \o << Num(parseInt(s.selectedAnswer)) >>
         \o SliceFrom(s.answers, s.currentQuestion + 1)
    ELSE s.answers

\* finishGame throws: the reduce reads questions[index].correctAnswer of a
\* question that does not exist
CBfinishThrows(s) == Len(CBfinalAnswers(s)) > Len(s.questions)

RECURSIVE CBreduce(_, _, _)
\* finalAnswers.reduce((score, answer, index) => answer ===
\* questions[index].correctAnswer ? score + 1 : score, 0), from index (1-based)
CBreduce(finalAnswers, questions, index) ==
    IF index > Len(finalAnswers) THEN 0
    ELSE CBreduce(finalAnswers, questions, index + 1)
         + (IF finalAnswers[index] = Num(questions[index]) THEN 1 ELSE 0)

\* finishGame run with the state s of the render it belongs to: the state it
\* sets and the arguments of onGameEnd
CBfinishGame(s) ==
    LET finalScore == CBreduce(CBfinalAnswers(s), s.questions, 1)
    IN  [ score |-> finalScore, total |-> Len(s.questions) ]

\* The two timer effects after a render.  old is the state of the render
\* before, new the state rendered now; an effect runs when one of its
\* dependencies changed.  The result is the state after the effects and
\* whether finishGame ran, with the state it ran in.
CBEffects(old, new) ==
    LET readingOver ==
            /\ <<new.readingTimeLeft, new.gamePhase>>
                    # <<old.readingTimeLeft, old.gamePhase>>
            /\ new.gamePhase = "reading"
            /\ new.readingTimeLeft = 0
        \* setGamePhase('questions') renders once more, with gamePhase changed
        r == IF readingOver THEN [new EXCEPT !.gamePhase = "questions"] ELSE new
        fin == /\ \/ readingOver
                  \/ <<new.timeLeft, new.gamePhase>> # <<old.timeLeft, old.gamePhase>>
               /\ r.gamePhase = "questions"
               /\ r.timeLeft = 0
               /\ ~CBfinishThrows(r)
    IN  IF fin
        THEN [ st |-> [r EXCEPT !.score = CBfinishGame(r).score,
                                !.gamePhase = "finished"],
               ended |-> TRUE, ran |-> r,
               score |-> CBfinishGame(r).score, total |-> CBfinishGame(r).total ]
        ELSE [ st |-> r, ended |-> FALSE, ran |-> r, score |-> 0, total |-> 0 ]

\* history of finishGame: when it ran with an option selected, that option is
\* the answer it scored for the question on screen
CBOriginAfter(res, o) ==
    IF res.ended /\ res.ran.selectedAnswer # ""
    THEN [o EXCEPT !.answers[res.ran.currentQuestion + 1] = o.selected]
    ELSE o

\* an event of the component: its new state, and onGameEnd when finishGame ran
CBCommit(res) ==
    /\ cb' = res.st
    /\ IF res.ended
       THEN /\ RouterHandleGameEnd(res.score, res.total)
            /\ endCalls' = endCalls + 1
            /\ endSnapshot' = <<res.ran>>
            /\ UNCHANGED <<profiles, ueCalls, pageVars, appliedGames, expAtStart,
                           gamesStarted>>
       ELSE UNCHANGED <<pvpVars, endCalls, endSnapshot>>
    /\ UNCHANGED <<sb, fnVars, rkVars, aiVars, mqVars>>

\* loadContent's await returns.  The effect that starts loadContent depends on
\* getRandomPassage, which useContent creates anew in every render, so the
\* effect runs after every render and a load is in flight whenever the
\* component is mounted.
CBLoadPassage(questions) ==
    /\ CBMounted
    /\ questions \in DbPassages
    /\ LET res == CBEffects(cb,
            [cb EXCEPT !.questions = questions,
                       !.answers = ArrayFill(Len(questions), Null),
                       !.gamePhase = "reading"])
       IN  /\ CBCommit(res)
           /\ answerOrigin' = CBOriginAfter(res,
                [answerOrigin EXCEPT !.answers = ArrayFill(Len(questions), NoQuestion)])

\* getRandomPassage returned null (no passage, or the fetch failed)
CBLoadFallback ==
    /\ CBMounted
    /\ LET res == CBEffects(cb,
            [cb EXCEPT !.questions = fallbackQuestions,
                       !.answers = ArrayFill(Len(fallbackQuestions), Null),
                       !.gamePhase = "reading"])
       IN  /\ CBCommit(res)
           /\ answerOrigin' = CBOriginAfter(res,
                [answerOrigin EXCEPT !.answers = ArrayFill(Len(fallbackQuestions), NoQuestion)])

\* the reading countdown's timeout
CBReadingTick ==
    /\ CBMounted
    /\ cb.gamePhase = "reading"
    /\ cb.readingTimeLeft > 0
    /\ CBCommit(CBEffects(cb, [cb EXCEPT !.readingTimeLeft = @ - 1]))
    /\ answerOrigin' = CBOriginAfter(CBEffects(cb, [cb EXCEPT !.readingTimeLeft = @ - 1]), answerOrigin)

\* the question countdown's timeout
CBQuestionTick ==
    /\ CBMounted
    /\ cb.gamePhase = "questions"
    /\ cb.timeLeft > 0
    /\ CBCommit(CBEffects(cb, [cb EXCEPT !.timeLeft = @ - 1]))
    /\ answerOrigin' = CBOriginAfter(CBEffects(cb, [cb EXCEPT !.timeLeft = @ - 1]), answerOrigin)

\* the I'm Ready for Questions button
startQuestions ==
    /\ CBMounted
    /\ cb.gamePhase = "reading"
    /\ CBCommit(CBEffects(cb, [cb EXCEPT !.gamePhase = "questions"]))
    /\ answerOrigin' = CBOriginAfter(CBEffects(cb, [cb EXCEPT !.gamePhase = "questions"]), answerOrigin)

\* the radio group reports a new value
handleAnswerSelect(index) ==
    /\ CBMounted
    /\ CBQuestionView(cb)
    /\ toString(index) # cb.selectedAnswer
    /\ CBCommit(CBEffects(cb, [cb EXCEPT !.selectedAnswer = toString(index)]))
    /\ answerOrigin' = [answerOrigin EXCEPT !.selected = cb.currentQuestion]

\* the Next Question / Finish Game button (disabled without a selection)
handleNextQuestion ==
    /\ CBMounted
    /\ CBQuestionView(cb)
    /\ cb.selectedAnswer # ""
    /\ LET answerIndex == parseInt(cb.selectedAnswer)
           newAnswers == [cb.answers EXCEPT ![cb.currentQuestion + 1] = Num(answerIndex)]
           set == [cb EXCEPT !.answers = newAnswers, !.selectedAnswer = ""]
       IN  IF cb.currentQuestion < Len(cb.questions) - 1
           THEN CBCommit(CBEffects(cb, [set EXCEPT !.currentQuestion = @ + 1]))
           ELSE CBCommit([ st |-> [set EXCEPT !.score = CBfinishGame(cb).score,
                                              !.gamePhase = "finished"],
                           ended |-> TRUE, ran |-> cb,
                           score |-> CBfinishGame(cb).score,
                           total |-> CBfinishGame(cb).total ])
    /\ answerOrigin' = [answerOrigin EXCEPT
                            !.answers[cb.currentQuestion + 1] = answerOrigin.selected,
                            !.selected = NoQuestion]

\* the Previous button (disabled on the first question)
CBPreviousToFirst ==
    /\ CBMounted
    /\ CBQuestionView(cb)
    /\ cb.currentQuestion # 0
    /\ CBCommit(CBEffects(cb, [cb EXCEPT !.currentQuestion = 0]))
    /\ answerOrigin' = CBOriginAfter(CBEffects(cb, [cb EXCEPT !.currentQuestion = 0]), answerOrigin)

CBPrevious ==
    /\ CBMounted
    /\ CBQuestionView(cb)
    /\ cb.currentQuestion # 0
    /\ CBCommit(CBEffects(cb, [cb EXCEPT !.currentQuestion = Max(0, @ - 1)]))
    /\ answerOrigin' = CBOriginAfter(CBEffects(cb, [cb EXCEPT !.currentQuestion = Max(0, @ - 1)]), answerOrigin)

NextCB ==
    \/ \E q \in DbPassages : CBLoadPassage(q)
    \/ CBLoadFallback
    \/ CBReadingTick
    \/ CBQuestionTick
    \/ startQuestions
    \/ \E index \in 0..MaxOption : handleAnswerSelect(index)
    \/ handleNextQuestion
    \/ CBPrevious

(***************************************************************************)
(* SpellingBee.  A word is represented by its spelling; strings are        *)
(* sequences of characters over a small alphabet.                          *)
(***************************************************************************)
\* String.prototype.toLowerCase
LowerChar(ch) == IF ch = "A" THEN "a" ELSE IF ch = "B" THEN "b" ELSE ch
toLowerCase(str) == [i \in DOMAIN str |-> LowerChar(str[i])]

RECURSIVE trimStart(_)
trimStart(str) ==
    IF str # <<>> /\ Head(str) = " " THEN trimStart(Tail(str)) ELSE str

RECURSIVE trimEnd(_)
trimEnd(str) ==
    IF str # <<>> /\ str[Len(str)] = " "
    THEN trimEnd(SubSeq(str, 1, Len(str) - 1)) ELSE str

\* String.prototype.trim
trim(str) == trimEnd(trimStart(str))

\* the word lists getRandomSpellingWords(8) may return: a shuffle of the
\* active words, or [] when there are none or the fetch failed
DbWordLists == { <<>>, << <<"a">>, <<"B">> >>, << <<"B">>, <<"a">> >> }

\* the texts the modelled user leaves in the input box
TypedTexts == { <<>>, <<"a">>, <<"A", " ">>, <<"b">>, <<" ">> }

SBMounted == GameMounted /\ selectedMode = "spellbee"

\* the playing view can be drawn: it reads fields of words[currentWord]
SBPlayingView(s) ==
    /\ ~s.loading
    /\ s.gamePhase = "playing"
    /\ s.currentWord < Len(s.words)

\* finishGame: the answers it scores
SBfinalAnswers(s) ==
    IF s.userInput # <<>>
    THEN Slice(s.answers, 0, s.currentWord)
         \o << trim(s.userInput) >>
         \o SliceFrom(s.answers, s.currentWord + 1)
    ELSE s.answers

\* finishGame throws: the reduce reads words[index].word of a word that does
\* not exist
SBfinishThrows(s) == Len(SBfinalAnswers(s)) > Len(s.words)

RECURSIVE SBreduce(_, _, _)
RECURSIVE SBreduceExact(_, _, _)
\* finalAnswers.reduce((score, answer, index) => answer.toLowerCase() ===
\* words[index].word.toLowerCase() ? score + 1 : score, 0)
SBreduceExact(finalAnswers, words, index) ==
    IF index > Len(finalAnswers) THEN 0
    ELSE SBreduceExact(finalAnswers, words, index + 1)
         + (IF finalAnswers[index] = words[index] THEN 1 ELSE 0)

SBreduce(finalAnswers, words, index) ==
    IF index > Len(finalAnswers) THEN 0
    ELSE SBreduce(finalAnswers, words, index + 1)
         + (IF toLowerCase(finalAnswers[index]) = toLowerCase(words[index])
            THEN 1 ELSE 0)

\* finishGame run with the state s of the render it belongs to
SBfinishGame(s) ==
    [ score |-> SBreduce(SBfinalAnswers(s), s.words, 1), total |-> Len(s.words) ]

\* The timer effect after a render (dependencies timeLeft and gamePhase).
SBEffects(old, new) ==
    LET fin == /\ <<new.timeLeft, new.gamePhase>> # <<old.timeLeft, old.gamePhase>>
               /\ new.gamePhase = "playing"
               /\ new.timeLeft = 0
               /\ ~SBfinishThrows(new)
    IN  IF fin
        THEN [ st |-> [new EXCEPT !.score = SBfinishGame(new).score,
                                  !.gamePhase = "finished"],
               ended |-> TRUE, ran |-> new,
               score |-> SBfinishGame(new).score, total |-> SBfinishGame(new).total ]
        ELSE [ st |-> new, ended |-> FALSE, ran |-> new, score |-> 0, total |-> 0 ]

SBCommit(res) ==
    /\ sb' = res.st
    /\ IF res.ended
       THEN /\ RouterHandleGameEnd(res.score, res.total)
            /\ endCalls' = endCalls + 1
            /\ endSnapshot' = <<res.ran>>
            /\ UNCHANGED <<profiles, ueCalls, pageVars, appliedGames, expAtStart,
                           gamesStarted>>
       ELSE UNCHANGED <<pvpVars, endCalls, endSnapshot>>
    /\ UNCHANGED <<cb, answerOrigin, fnVars, rkVars, aiVars, mqVars>>

\* loadWords' await returns.  As in ComprehensionBattle the effect depends on
\* a function useContent creates anew in every render (getRandomSpellingWords),
\* so a load is in flight whenever the component is mounted.  The catch branch
\* with sampleWords is never taken: getRandomSpellingWords catches every error
\* and returns [].
SBLoadWords(spellingWords) ==
    /\ SBMounted
    /\ spellingWords \in DbWordLists
    /\ SBCommit(SBEffects(sb,
            [sb EXCEPT !.words = spellingWords,
                       !.answers = ArrayFill(Len(spellingWords), <<>>),
                       !.loading = FALSE]))

\* the countdown's timeout; it runs from the first render, loading or not
SBTick ==
    /\ SBMounted
    /\ sb.gamePhase = "playing"
    /\ sb.timeLeft > 0
    /\ SBCommit(SBEffects(sb, [sb EXCEPT !.timeLeft = @ - 1]))

handleInputChange(value) ==
    /\ SBMounted
    /\ SBPlayingView(sb)
    /\ value # sb.userInput
    /\ SBCommit(SBEffects(sb, [sb EXCEPT !.userInput = value]))

\* what handleNextWord and handleSkipWord do after recording newAnswers
SBAdvance(newAnswers) ==
    LET set == [sb EXCEPT !.answers = newAnswers, !.userInput = <<>>]
    IN  IF sb.currentWord < Len(sb.words) - 1
        THEN SBCommit(SBEffects(sb, [set EXCEPT !.currentWord = @ + 1]))
        ELSE SBCommit([ st |-> [set EXCEPT !.score = SBfinishGame(sb).score,
                                           !.gamePhase = "finished"],
                        ended |-> TRUE, ran |-> sb,
                        score |-> SBfinishGame(sb).score,
                        total |-> SBfinishGame(sb).total ])

\* the Next Word / Finish Game button and the Enter key (both need text)
handleNextWord ==
    /\ SBMounted
    /\ SBPlayingView(sb)
    /\ trim(sb.userInput) # <<>>
    /\ SBAdvance([sb.answers EXCEPT ![sb.currentWord + 1] = trim(sb.userInput)])

\* the Skip Word button
handleSkipWord ==
    /\ SBMounted
    /\ SBPlayingView(sb)
    /\ SBAdvance([sb.answers EXCEPT ![sb.currentWord + 1] = <<>>])

NextSB ==
    \/ \E w \in DbWordLists : SBLoadWords(w)
    \/ SBTick
    \/ \E value \in TypedTexts : handleInputChange(value)
    \/ handleNextWord
    \/ handleSkipWord

\* a game component has just been mounted by the page
InitGame ==
    /\ \E e \in StartExps :
        /\ profiles = [u \in {Me} |-> update_user_rank(ProfileRow(e, FALSE, 1))]
        /\ profile = update_user_rank(ProfileRow(e, FALSE, 1))
        /\ expAtStart = e
    /\ expRequests = <<>>
    /\ ueCalls = <<>>
    /\ selectedMode \in GameModes
    /\ matchmaking = FALSE
    /\ inGame = TRUE
    /\ matchTimers = 0
    /\ gameCompleted = FALSE
    /\ gameResults = NoResults
    /\ gameLog = <<>>
    /\ appliedGames = {}
    /\ gamesStarted = 1
    /\ FnIdle
    /\ RkIdle
    /\ GameIdle
    /\ QueueIdle
    /\ AiIdle

NextGame ==
    \/ NextCB
    \/ NextSB
    \/ \E i \in 1..MaxOps : DbExecUpdate(i)

SpecGame == InitGame /\ [][NextGame]_vars

(***************************************************************************)
(* Properties of one game instance (SpecGame).                             *)
(***************************************************************************)
\* the component of the selected mode has finished and GameRouter holds the
\* arguments of its onGameEnd
CBFinished == selectedMode = "comprehension" /\ cb.gamePhase = "finished"
SBFinished == selectedMode = "spellbee" /\ sb.gamePhase = "finished"

SBScored(s, i) ==
    IF s.userInput # <<>> /\ i = s.currentWord + 1
    THEN trim(s.userInput)
    ELSE s.answers[i]

\* C2 (as stated): the score of a finished SpellingBee is the number of
\* words whose answer is exactly the stored word, letter case included.
C2_ExactMatchScore ==
    (SBFinished /\ endSnapshot # NoSnapshot) =>
        LET s == endSnapshot[1]
            exact == { i \in 1..Len(s.words) : SBScored(s, i) = s.words[i] }
        IN  /\ gameResults # NoResults
            /\ gameResults[1].score = Cardinality(exact)
            /\ gameResults[1].total = Len(s.words)

\* C2 (amended): the score of a finished SpellingBee is the number of words
\* whose answer equals the stored word when letter case is ignored, and the
\* total is the number of words.
C2_CaseInsensitiveScore ==
    (SBFinished /\ endSnapshot # NoSnapshot) =>
        LET s == endSnapshot[1]
            same(a, b) ==
                /\ Len(a) = Len(b)
                /\ \A k \in 1..Len(a) :
                      \/ a[k] = b[k]
                      \/ {a[k], b[k]} \in { {"a", "A"}, {"b", "B"} }
            matching == { i \in 1..Len(s.words) : same(SBScored(s, i), s.words[i]) }
        IN  /\ gameResults # NoResults
            /\ gameResults[1].score = Cardinality(matching)
            /\ gameResults[1].total = Len(s.words)

\* a finished game in which an answer that differs from its word in letter
\* case only was counted
C2_Witness ==
    /\ SBFinished
    /\ endSnapshot # NoSnapshot
    /\ gameResults # NoResults
    /\ gameResults[1].score >= 1
    /\ \E i \in 1..Len(endSnapshot[1].words) :
          /\ SBScored(endSnapshot[1], i) # endSnapshot[1].words[i]
          /\ toLowerCase(SBScored(endSnapshot[1], i))
                = toLowerCase(endSnapshot[1].words[i])

\* the position of a phase in loading -> reading -> questions -> finished
PhaseRank(phase) ==
    CASE phase = "loading" -> 0
      [] phase = "reading" -> 1
      [] phase = "questions" -> 2
      [] phase = "finished" -> 3

\* C8: ComprehensionBattle's gamePhase never moves backwards: no step takes
\* it from questions to reading or loading, or out of finished.
C8_PhaseOnlyForward ==
    [][PhaseRank(cb'.gamePhase) >= PhaseRank(cb.gamePhase)]_vars

\* C9: a game instance has called onGameEnd once when it is in the finished
\* phase and not at all before: never twice, and never without finishing.
C9_OnGameEndOnce ==
    /\ endCalls <= 1
    /\ endCalls = 1 <=> (CBFinished \/ SBFinished)
    /\ endCalls = Len(gameLog)

\* a game that ended, after which its exp update was carried out
C9_Witness ==
    /\ endCalls = 1
    /\ CBFinished \/ SBFinished
    /\ appliedGames # {}

\* C10: once SpellingBee has loaded its words, no step before the game
\* finishes replaces the word list or changes a recorded (non-empty) answer.
C10_WordsAndAnswersKept ==
    [][(~sb.loading /\ sb.gamePhase = "playing") =>
            /\ sb'.words = sb.words
            /\ \A i \in DOMAIN sb.answers :
                  sb.answers[i] # <<>> =>
                      /\ i \in DOMAIN sb'.answers
                      /\ sb'.answers[i] = sb.answers[i]]_vars

(***************************************************************************)
(* SpecQueue: the matchmaking queue.  The signed-in user's hook            *)
(* (useMatchmaking) sends its requests one after the other; each request   *)
(* is executed by the database at some later moment and its answer         *)
(* resumes the call.  supabase-js reports a failed request in the error    *)
(* field of the answer, it does not throw.  The other players run the      *)
(* same hook in their own sessions.                                        *)
(***************************************************************************)
\* the rows of matchmaking_queue with player_id = u, and all the others
RowsOf(q, u) == { r \in q : r.player_id = u }
RowsNotOf(q, u) == { r \in q : r.player_id # u }

\* .delete().eq('player_id', u) executed by the database
DeleteRowsOf(q, u) == q \ RowsOf(q, u)

\* .insert({ player_id, game_mode, skill_level: 1 }) executed by the database
InsertRow(q, id, u, gameMode) ==
    q \cup { [id |-> id, player_id |-> u, game_mode |-> gameMode, skill_level |-> 1] }

\* the insert would break UNIQUE(player_id, game_mode), where the table has it
ViolatesUnique(q, u, gameMode) ==
    /\ queueUnique
    /\ \E r \in q : r.player_id = u /\ r.game_mode = gameMode

MMCall(op, gameMode) ==
    [ op |-> op, pc |-> "delete", game_mode |-> gameMode, error |-> FALSE,
      othersKept |-> TRUE ]

\* the hook is called (user is signed in)
joinQueue(gameMode) ==
    /\ mmMounted
    /\ queueOps < MaxQueueOps
    /\ queueOps' = queueOps + 1
    /\ mmCalls' = Append(mmCalls, MMCall("joinQueue", gameMode))
    /\ mmLeft' = FALSE
    /\ UNCHANGED <<queue, rowsInserted, mm, subscriptions, leaveDone>>
    /\ UNCHANGED <<tableVars, mmTimers, mmNotices, mmMounted, unmountLog>>
    /\ UNCHANGED <<fnVars, rkVars, aiVars, pvpVars, gameVars>>

\* joinQueue's clean-up delete is executed, or fails; its answer is not looked at
JoinDelete(i, ok) ==
    /\ i \in DOMAIN mmCalls
    /\ mmCalls[i].op = "joinQueue"
    /\ mmCalls[i].pc = "delete"
    /\ queue' = IF ok THEN DeleteRowsOf(queue, Me) ELSE queue
    /\ mmCalls' = [mmCalls EXCEPT ![i].pc = "insert"]
    /\ UNCHANGED <<rowsInserted, mm, subscriptions, leaveDone, queueOps>>
    /\ UNCHANGED <<tableVars, hookVars>>
    /\ UNCHANGED <<fnVars, rkVars, aiVars, pvpVars, gameVars>>

\* joinQueue's insert is executed, or fails
JoinInsert(i, ok) ==
    /\ i \in DOMAIN mmCalls
    /\ mmCalls[i].op = "joinQueue"
    /\ mmCalls[i].pc = "insert"
    /\ ok => ~ViolatesUnique(queue, Me, mmCalls[i].game_mode)
    /\ IF ok
       THEN /\ queue' = InsertRow(queue, rowsInserted + 1, Me, mmCalls[i].game_mode)
            /\ rowsInserted' = rowsInserted + 1
       ELSE UNCHANGED <<queue, rowsInserted>>
    /\ mmCalls' = [mmCalls EXCEPT ![i].pc = "reply", ![i].error = ~ok]
    /\ UNCHANGED <<mm, subscriptions, leaveDone, queueOps>>
    /\ UNCHANGED <<tableVars, hookVars>>
    /\ UNCHANGED <<fnVars, rkVars, aiVars, pvpVars, gameVars>>

\* the insert's answer arrives: throw on error, else setState and
\* monitorForMatches (which subscribes; its unsubscribe function is dropped)
JoinReturn(i) ==
    /\ i \in DOMAIN mmCalls
    /\ mmCalls[i].op = "joinQueue"
    /\ mmCalls[i].pc = "reply"
    /\ IF mmCalls[i].error
       THEN UNCHANGED <<mm, subscriptions>>
       ELSE /\ mm' = [mm EXCEPT !.isQueued = TRUE, !.isMatched = FALSE,
                                !.gameId = "null", !.opponent = "null"]
            /\ subscriptions' = subscriptions + 1
    /\ mmCalls' = RemoveAt(mmCalls, i)
    /\ UNCHANGED <<queue, rowsInserted, leaveDone, queueOps>>
    /\ UNCHANGED <<tableVars, hookVars>>
    /\ UNCHANGED <<fnVars, rkVars, aiVars, pvpVars, gameVars>>

leaveQueue ==
    /\ mmMounted
    /\ queueOps < MaxQueueOps
    /\ queueOps' = queueOps + 1
    /\ mmCalls' = Append(mmCalls, MMCall("leaveQueue", NoMode))
    /\ UNCHANGED <<queue, rowsInserted, mm, subscriptions, leaveDone>>
    /\ UNCHANGED <<tableVars, hookVars>>
    /\ UNCHANGED <<fnVars, rkVars, aiVars, pvpVars, gameVars>>

\* leaveQueue's delete is executed, or fails
LeaveDelete(i, ok) ==
    /\ i \in DOMAIN mmCalls
    /\ mmCalls[i].op = "leaveQueue"
    /\ mmCalls[i].pc = "delete"
    /\ queue' = IF ok THEN DeleteRowsOf(queue, Me) ELSE queue
    /\ mmCalls' = [mmCalls EXCEPT
            ![i].pc = "reply", ![i].error = ~ok,
            ![i].othersKept = (RowsNotOf(queue', Me) = RowsNotOf(queue, Me))]
    /\ UNCHANGED <<rowsInserted, mm, subscriptions, leaveDone, queueOps>>
    /\ UNCHANGED <<tableVars, hookVars>>
    /\ UNCHANGED <<fnVars, rkVars, aiVars, pvpVars, gameVars>>

\* the delete's answer arrives: its error field is not read; setState, return
LeaveReturn(i) ==
    /\ i \in DOMAIN mmCalls
    /\ mmCalls[i].op = "leaveQueue"
    /\ mmCalls[i].pc = "reply"
    /\ mm' = [mm EXCEPT !.isQueued = FALSE, !.isMatched = FALSE,
                        !.gameId = "null", !.opponent = "null"]
    /\ leaveDone' = << [ own |-> RowsOf(queue, Me),
                         othersKept |-> mmCalls[i].othersKept,
                         error |-> mmCalls[i].error,
                         \* nothing is thrown, so the catch block (console.error,
                         \* throw) does not run
                         logged |-> FALSE, raised |-> FALSE,
                         isQueuedBefore |-> mm.isQueued,
                         isQueuedAfter |-> mm'.isQueued ] >>
    /\ mmCalls' = RemoveAt(mmCalls, i)
    /\ UNCHANGED <<queue, rowsInserted, subscriptions, queueOps>>
    /\ mmLeft' = TRUE
    /\ UNCHANGED <<tableVars, mmTimers, mmNotices, mmMounted, unmountLog>>
    /\ UNCHANGED <<fnVars, rkVars, aiVars, pvpVars, gameVars>>

\* another player's joinQueue and leaveQueue, carried out in their session
OtherJoins(u, gameMode) ==
    /\ u \in Players
    /\ u # Me
    /\ queueOps < MaxQueueOps
    /\ queueOps' = queueOps + 1
    /\ queue' = InsertRow(DeleteRowsOf(queue, u), rowsInserted + 1, u, gameMode)
    /\ rowsInserted' = rowsInserted + 1
    /\ UNCHANGED <<mm, mmCalls, subscriptions, leaveDone>>
    /\ UNCHANGED <<tableVars, hookVars>>
    /\ UNCHANGED <<fnVars, rkVars, aiVars, pvpVars, gameVars>>

OtherLeaves(u) ==
    /\ u \in Players
    /\ u # Me
    /\ queueOps < MaxQueueOps
    /\ RowsOf(queue, u) # {}
    /\ queueOps' = queueOps + 1
    /\ queue' = DeleteRowsOf(queue, u)
    /\ UNCHANGED <<rowsInserted, mm, mmCalls, subscriptions, leaveDone>>
    /\ UNCHANGED <<tableVars, hookVars>>
    /\ UNCHANGED <<fnVars, rkVars, aiVars, pvpVars, gameVars>>

\* SELECT ... ORDER BY created_at ASC: the rows as a sequence, oldest first
\* (ids are given out in the order of insertion)
Oldest(rows) == CHOOSE r \in rows : \A o \in rows : r.id <= o.id

RECURSIVE OrderByCreatedAt(_)
OrderByCreatedAt(rows) ==
    IF rows = {} THEN <<>>
    ELSE <<Oldest(rows)>> \o OrderByCreatedAt(rows \ {Oldest(rows)})

Abs(n) == IF n >= 0 THEN n ELSE -n

\* the ids of DELETE ... WHERE id IN (player1_record.id, player2_record.id)
MatchedIdsFirstOnly(player1_record, player2_record) == {player1_record.id}

MatchedIds(player1_record, player2_record) ==
    {player1_record.id, player2_record.id}

\* the FOR loop of match_players.  Its query is evaluated when the loop
\* starts: rows holds the rows still to visit, as they were then, also those
\* the loop body has deleted in the meantime.  q is the table as the loop
\* body sees it, made the pairs of entries put into games so far.
RECURSIVE MatchLoop(_, _, _)
MatchLoop(rows, q, made) ==
    IF rows = <<>> THEN [queue |-> q, made |-> made]
    ELSE LET player1_record == Head(rows)
             opponents == { r \in q :
                              /\ r.id # player1_record.id
                              /\ r.game_mode = player1_record.game_mode
                              /\ Abs(r.skill_level - player1_record.skill_level) <= 2 }
         IN  IF opponents = {}
             THEN MatchLoop(Tail(rows), q, made)
             ELSE LET player2_record == Oldest(opponents)
                  IN  MatchLoop(Tail(rows),
                        { r \in q : r.id \notin MatchedIds(player1_record, player2_record) },
                        Append(made, [player1 |-> player1_record,
                                      player2 |-> player2_record]))

\* the active_games rows inserted for the pairs made
GameRows(made, firstId) ==
    [k \in DOMAIN made |->
        [id |-> firstId + k - 1,
         player1_id |-> made[k].player1.player_id,
         player2_id |-> made[k].player2.player_id,
         game_mode |-> made[k].player1.game_mode,
         status |-> "waiting"]]

\* match_players() is invoked (it exists where the migration that defines it
\* created the tables); the inserts into active_games are reported to the
\* subscriptions of monitorForMatches
match_players ==
    /\ ~queueUnique
    /\ matchRuns < MaxMatchRuns
    /\ matchRuns' = matchRuns + 1
    /\ LET res == MatchLoop(OrderByCreatedAt(queue), queue, <<>>)
           games == GameRows(res.made, Len(activeGames) + 1)
       IN  /\ queue' = res.queue
           /\ activeGames' = activeGames \o games
           /\ matchLog' = matchLog \o
                 [k \in DOMAIN res.made |->
                    [run |-> matchRuns + 1,
                     game |-> games[k].id,
                     entries |-> {res.made[k].player1.id, res.made[k].player2.id},
                     players |-> <<games[k].player1_id, games[k].player2_id>>]]
           /\ mmNotices' =
                 IF subscriptions > 0
                 THEN mmNotices \cup
                        { games[k].id : k \in { n \in DOMAIN games :
                              Me \in {games[n].player1_id, games[n].player2_id} } }
                 ELSE mmNotices
    /\ UNCHANGED <<rowsInserted, mm, mmCalls, subscriptions, leaveDone, queueOps,
                   queueUnique, mmTimers, mmMounted, mmLeft, unmountLog>>
    /\ UNCHANGED <<fnVars, rkVars, aiVars, pvpVars, gameVars>>

\* the callback of monitorForMatches runs for an inserted game and, after
\* fetching the opponent's profile, sets the state
MatchNotified(gameId) ==
    /\ gameId \in mmNotices
    /\ mmNotices' = mmNotices \ {gameId}
    /\ LET game == activeGames[gameId]
           opponentId == IF game.player1_id = Me THEN game.player2_id
                         ELSE game.player1_id
       IN  IF mmMounted
           THEN mm' = [mm EXCEPT !.isQueued = FALSE, !.isMatched = TRUE,
                                 !.gameId = "game", !.opponent = opponentId]
           ELSE UNCHANGED mm
    /\ UNCHANGED <<queue, rowsInserted, mmCalls, subscriptions, leaveDone, queueOps,
                   tableVars, mmTimers, mmMounted, mmLeft, unmountLog>>
    /\ UNCHANGED <<fnVars, rkVars, aiVars, pvpVars, gameVars>>

\* simulateMatch: setState and a timer of 2 to 4 seconds
simulateMatch ==
    /\ mmMounted
    /\ queueOps < MaxQueueOps
    /\ queueOps' = queueOps + 1
    /\ mm' = [mm EXCEPT !.isQueued = TRUE]
    /\ mmTimers' = mmTimers + 1
    /\ mmLeft' = FALSE
    /\ UNCHANGED <<queue, rowsInserted, mmCalls, subscriptions, leaveDone,
                   tableVars, mmNotices, mmMounted, unmountLog>>
    /\ UNCHANGED <<fnVars, rkVars, aiVars, pvpVars, gameVars>>

\* the timer of simulateMatch fires
SimulatedMatchFound ==
    /\ mmTimers > 0
    /\ mmTimers' = mmTimers - 1
    /\ IF mmMounted
       THEN mm' = [mm EXCEPT !.isQueued = FALSE, !.isMatched = TRUE,
                             !.gameId = "simulated-game", !.opponent = "ai-opponent"]
       ELSE UNCHANGED mm
    /\ UNCHANGED <<queue, rowsInserted, mmCalls, subscriptions, leaveDone, queueOps,
                   tableVars, mmNotices, mmMounted, mmLeft, unmountLog>>
    /\ UNCHANGED <<fnVars, rkVars, aiVars, pvpVars, gameVars>>

\* The component unmounts.  The cleanup belongs to the effect of the first
\* render (dependencies []), so the state it reads is the state of that
\* render: isQueued is the initial false and leaveQueue is not called.
Unmount ==
    /\ mmMounted
    /\ mmMounted' = FALSE
    /\ LET closure == MMInitial
       IN  /\ mmCalls' = IF closure.isQueued
                         THEN Append(mmCalls, MMCall("leaveQueue", NoMode))
                         ELSE mmCalls
           /\ unmountLog' = << [ isQueued |-> mm.isQueued,
                                 rows |-> RowsOf(queue, Me),
                                 calledLeaveQueue |-> closure.isQueued ] >>
    /\ UNCHANGED <<queue, rowsInserted, mm, subscriptions, leaveDone, queueOps,
                   tableVars, mmTimers, mmNotices, mmLeft>>
    /\ UNCHANGED <<fnVars, rkVars, aiVars, pvpVars, gameVars>>

InitQueue ==
    /\ queue = {}
    /\ rowsInserted = 0
    /\ mm = MMInitial
    /\ mmCalls = <<>>
    /\ subscriptions = 0
    /\ leaveDone = NoLeave
    /\ queueOps = 0
    /\ queueUnique \in BOOLEAN
    /\ activeGames = <<>>
    /\ matchLog = <<>>
    /\ matchRuns = 0
    /\ mmTimers = 0
    /\ mmNotices = {}
    /\ mmMounted = TRUE
    /\ mmLeft = FALSE
    /\ unmountLog = NoUnmount
    /\ AiIdle
    /\ FnIdle
    /\ RkIdle
    /\ PvpIdle
    /\ GameIdle

NextQueue ==
    \/ \E gameMode \in GameModes : joinQueue(gameMode)
    \/ \E i \in 1..MaxQueueOps, ok \in BOOLEAN : JoinDelete(i, ok)
    \/ \E i \in 1..MaxQueueOps, ok \in BOOLEAN : JoinInsert(i, ok)
    \/ \E i \in 1..MaxQueueOps : JoinReturn(i)
    \/ leaveQueue
    \/ \E i \in 1..MaxQueueOps, ok \in BOOLEAN : LeaveDelete(i, ok)
    \/ \E i \in 1..MaxQueueOps : LeaveReturn(i)
    \/ \E u \in Players, gameMode \in GameModes : OtherJoins(u, gameMode)
    \/ \E u \in Players : OtherLeaves(u)
    \/ match_players
    \/ \E gameId \in 1..MaxQueueOps : MatchNotified(gameId)
    \/ simulateMatch
    \/ SimulatedMatchFound
    \/ Unmount

SpecQueue == InitQueue /\ [][NextQueue]_vars

\* SpecMatch: players joining and leaving the queue and match_players, with
\* the tables of the migration that defines match_players
InitMatch == InitQueue /\ ~queueUnique

NextMatch ==
    \/ \E gameMode \in GameModes : joinQueue(gameMode)
    \/ \E i \in 1..MaxQueueOps, ok \in BOOLEAN : JoinDelete(i, ok)
    \/ \E i \in 1..MaxQueueOps, ok \in BOOLEAN : JoinInsert(i, ok)
    \/ \E i \in 1..MaxQueueOps : JoinReturn(i)
    \/ \E u \in Players, gameMode \in GameModes : OtherJoins(u, gameMode)
    \/ \E u \in Players : OtherLeaves(u)
    \/ match_players
    \/ \E gameId \in 1..MaxQueueOps : MatchNotified(gameId)

SpecMatch == InitMatch /\ [][NextMatch]_vars

\* C3: a leaveQueue that has returned deleted the caller's rows and no row of
\* another player, and the caller has no row in matchmaking_queue at that
\* moment.
C3_LeaveRemovesOwnRowsOnly ==
    leaveDone # NoLeave =>
        /\ leaveDone[1].othersKept
        /\ leaveDone[1].own = {}

\* C11 (as stated): during the questions phase the current question index
\* never decreases.
C11_IndexNeverDecreases ==
    [][cb.gamePhase = "questions" =>
            cb'.currentQuestion >= cb.currentQuestion]_vars

\* C11 (amended): the current question index moves by at most one question
\* per step and never below the first question; it goes back only in the
\* questions phase, from a question other than the first (Previous button).
C11_IndexMovesOneStep ==
    [][/\ cb'.currentQuestion >= 0
       /\ cb'.currentQuestion - cb.currentQuestion \in {-1, 0, 1}
       /\ cb'.currentQuestion < cb.currentQuestion =>
             /\ cb.gamePhase = "questions"
             /\ cb.currentQuestion > 0
             /\ cb'.gamePhase = "questions"]_vars

\* the user went back: the first question is on screen again, with the
\* answer recorded for it when the user advanced
C11_Witness ==
    /\ CBMounted
    /\ cb.gamePhase = "questions"
    /\ cb.currentQuestion = 0
    /\ Len(cb.answers) >= 2
    /\ cb.answers[1] # Null

(***************************************************************************)
(* SpecAI: aiService.generateResponse.  A text is represented by its       *)
(* length after trimming; a user message by what the keyword tests make    *)
(* of it.                                                                  *)
(***************************************************************************)
\* the providers array, by name
providersSwapped == <<"FastGPT", "HuggingFace", "EducationalAI">>
providers == <<"HuggingFace", "FastGPT", "EducationalAI">>

\* user messages: one holding a keyword of getIntelligentResponse, a question
\* ('what is ...') with a topic, one without a topic, and any other text
MessageClasses == {"keyword", "question", "questionNoTopic", "plain"}

\* trimmed lengths of the texts a provider sends
TextLens == {0, 8, 15, 30}

\* the parsed JSON bodies: null, an object of another shape, or the shape
\* the provider's parseResponse expects, carrying a text; sorry says that
\* the text includes 'Sorry, I could not generate'
Bodies ==
    { [shape |-> "null", len |-> 0, sorry |-> FALSE],
      [shape |-> "other", len |-> 0, sorry |-> FALSE],
      [shape |-> "expected", len |-> 30, sorry |-> TRUE] }
    \cup { [shape |-> "expected", len |-> l, sorry |-> FALSE] : l \in TextLens }

\* what await fetch(...) gives: a rejection (network error, or the abort of
\* the 10 s timer), or a response with ok false or true
FetchOutcomes == {"networkError", "abort", "notOk", "ok"}

\* getIntelligentResponse
getIntelligentResponse(message) ==
    IF message \in {"keyword", "question"}
    THEN [message |-> 120, isSpecific |-> TRUE]
    ELSE [message |-> 0, isSpecific |-> FALSE]

\* provider.parseResponse(data): it throws, or returns null or a text
parseResponse(provider, data) ==
    IF data.shape = "null"
    THEN \* HuggingFace tests Array.isArray(data); the others read a field
         \* of null
         [throws |-> provider # "HuggingFace", result |-> Null]
    ELSE IF data.shape = "other" \/ data.len = 0
    THEN [throws |-> FALSE, result |-> Null]
    ELSE IF provider = "FastGPT"
    THEN [throws |-> FALSE, result |-> <<data>>]
    ELSE [throws |-> FALSE,
          result |-> IF data.len > 20 THEN <<data>> ELSE Null]

\* callProvider's validation of the parsed result: the text, or null
Validated(result) ==
    IF result # Null /\ result[1].len > 10 /\ ~result[1].sorry
    THEN result
    ELSE Null

\* arr[index] of a JS array given by the lengths of its strings; -1 stands
\* for undefined
ArrayAt(arr, index) == IF index < Len(arr) THEN arr[index + 1] ELSE -1

\* the canned responses of the branch getSimulatedResponse takes
CannedResponses(message) ==
    IF message = "plain" THEN <<150, 160, 170, 140>> ELSE <<200, 210, 220>>

\* getSimulatedResponse, with r = Math.floor(Math.random() * responses.length)
getSimulatedResponseOffByOne(message, r) ==
    [message |-> ArrayAt(CannedResponses(message), r + 1)]

getSimulatedResponse(message, r) ==
    [message |-> ArrayAt(CannedResponses(message), r)]

Consulted(source, answer) == [source |-> source, answer |-> answer]

\* the last entry of aiConsulted gets its answer
Answered(answer) ==
    [aiConsulted EXCEPT ![Len(aiConsulted)].answer = answer]

\* generateResponse is called: the local classifier, then the first provider
generateResponse ==
    /\ aiPc = "idle"
    /\ LET localResponse == getIntelligentResponse(aiMessage)
       IN  IF localResponse.isSpecific
           THEN /\ aiPc' = "done"
                /\ aiResult' = << [status |-> "resolved", source |-> "local",
                                   message |-> localResponse.message] >>
                /\ aiConsulted' = << Consulted("local", "usable") >>
                /\ aiConsole' = Append(aiConsole, <<"local", "using local response">>)
                /\ UNCHANGED aiIndex
           ELSE /\ aiPc' = "fetch"
                /\ aiIndex' = 0
                /\ aiConsulted' = << Consulted("local", "failed"),
                                     Consulted(providers[1], "pending") >>
                /\ aiConsole' = Append(aiConsole, <<providers[1], "trying">>)
                /\ UNCHANGED aiResult
    /\ UNCHANGED aiMessage
    /\ UNCHANGED <<fnVars, rkVars, pvpVars, gameVars, mqVars>>

\* callProvider returned null: the loop goes on to the next provider, or,
\* after the last one, generateResponse returns getSimulatedResponse
ProviderGaveNothing(logged) ==
    LET console == logged \o << <<providers[aiIndex + 1], "empty/invalid">> >>
    IN  IF aiIndex + 1 < Len(providers)
        THEN /\ aiIndex' = aiIndex + 1
             /\ aiPc' = "fetch"
             /\ aiConsulted' = Append(Answered("failed"),
                                      Consulted(providers[aiIndex + 2], "pending"))
             /\ aiConsole' = aiConsole \o console
                                \o << <<providers[aiIndex + 2], "trying">> >>
             /\ UNCHANGED aiResult
        ELSE /\ \E r \in 0..(Len(CannedResponses(aiMessage)) - 1) :
                  aiResult' = << [status |-> "resolved", source |-> "canned",
                                  message |-> getSimulatedResponse(aiMessage, r).message] >>
             /\ aiPc' = "done"
             /\ aiConsulted' = Append(Answered("failed"), Consulted("canned", "usable"))
             /\ aiConsole' = aiConsole \o console \o << <<"canned", "all failed">> >>
             /\ UNCHANGED aiIndex

\* await fetch(...) settles
callProviderFetch(outcome) ==
    /\ aiPc = "fetch"
    /\ outcome \in FetchOutcomes
    /\ IF outcome = "ok"
       THEN /\ aiPc' = "json"
            /\ UNCHANGED <<aiIndex, aiConsole, aiResult, aiConsulted>>
       ELSE ProviderGaveNothing(
                << <<providers[aiIndex + 1],
                     IF outcome = "abort" THEN "timed out"
                     ELSE IF outcome = "notOk" THEN "error: HTTP status"
                     ELSE "error: fetch failed">> >>)
    /\ UNCHANGED aiMessage
    /\ UNCHANGED <<fnVars, rkVars, pvpVars, gameVars, mqVars>>

\* await response.json() rejects: the body is not JSON
callProviderBodyUnparsable ==
    /\ aiPc = "json"
    /\ ProviderGaveNothing(<< <<providers[aiIndex + 1], "error: invalid JSON">> >>)
    /\ UNCHANGED aiMessage
    /\ UNCHANGED <<fnVars, rkVars, pvpVars, gameVars, mqVars>>

\* await response.json() gives data: parseResponse, validation, and the
\* rest of the loop body
callProviderBody(data) ==
    /\ aiPc = "json"
    /\ data \in Bodies
    /\ LET provider == providers[aiIndex + 1]
           parsed == parseResponse(provider, data)
           response == IF parsed.throws THEN Null ELSE Validated(parsed.result)
       IN  IF response # Null
           THEN /\ aiPc' = "done"
                /\ aiResult' = << [status |-> "resolved", source |-> provider,
                                   message |-> response[1].len] >>
                /\ aiConsulted' = Answered("usable")
                /\ aiConsole' = Append(aiConsole, <<provider, "success">>)
                /\ UNCHANGED aiIndex
           ELSE ProviderGaveNothing(
                    IF parsed.throws THEN << <<provider, "error: TypeError">> >> ELSE <<>>)
    /\ UNCHANGED aiMessage
    /\ UNCHANGED <<fnVars, rkVars, pvpVars, gameVars, mqVars>>

\* the response's body never completes.  The abort timer was cleared when
\* the headers arrived, so nothing ends the await.
callProviderBodyStalls ==
    /\ aiPc = "json"
    /\ aiPc' = "stalled"
    /\ UNCHANGED <<aiMessage, aiIndex, aiConsole, aiResult, aiConsulted>>
    /\ UNCHANGED <<fnVars, rkVars, pvpVars, gameVars, mqVars>>

InitAI ==
    /\ aiMessage \in MessageClasses
    /\ aiPc = "idle"
    /\ aiIndex = 0
    /\ aiConsole = <<>>
    /\ aiResult = NoResponse
    /\ aiConsulted = <<>>
    /\ FnIdle
    /\ RkIdle
    /\ PvpIdle
    /\ GameIdle
    /\ QueueIdle

\* the steps that a settling promise takes
AISettles ==
    \/ generateResponse
    \/ \E outcome \in FetchOutcomes : callProviderFetch(outcome)
    \/ callProviderBodyUnparsable
    \/ \E data \in Bodies : callProviderBody(data)

NextAI ==
    \/ AISettles
    \/ callProviderBodyStalls

SpecAI == InitAI /\ [][NextAI]_vars

\* fetch settles (at the latest when the 10 s timer aborts it), and a body
\* that does not stall is read to its end
SpecAIFair == SpecAI /\ WF_vars(AISettles)

\* the order in which generateResponse consults its sources
SourceOrder == <<"local", "HuggingFace", "FastGPT", "EducationalAI", "canned">>

\* C12: the sources consulted so far are an initial part of local,
\* HuggingFace, FastGPT, EducationalAI, canned; every source before the
\* last one consulted failed to give a usable answer; and the call ends with
\* the answer of the last source consulted, which no other source follows.
C12_SourcesInOrder ==
    /\ Len(aiConsulted) <= Len(SourceOrder)
    /\ \A k \in DOMAIN aiConsulted :
          /\ aiConsulted[k].source = SourceOrder[k]
          /\ k < Len(aiConsulted) => aiConsulted[k].answer = "failed"
    /\ aiPc = "done" =>
          /\ aiConsulted[Len(aiConsulted)].answer = "usable"
          /\ aiResult[1].source = aiConsulted[Len(aiConsulted)].source
    /\ aiPc \in {"fetch", "json", "stalled"} =>
          /\ aiConsulted[Len(aiConsulted)].answer = "pending"
          /\ aiConsulted[Len(aiConsulted)].source = providers[aiIndex + 1]

\* the second provider answered after the classifier and the first provider
\* had failed, and the third provider was not called
C12_Witness ==
    /\ aiPc = "done"
    /\ aiResult[1].source = "FastGPT"
    /\ Len(aiConsulted) = 3

\* C13: generateResponse does not reject and a response it resolves to has a
\* non-empty message; and, the provider calls settling with a network error,
\* a non-2xx status, an abort, or a body that is unparsable, empty, too
\* short or usable, it does resolve (a body that never completes is the one
\* outcome that keeps it waiting).
C13_ResolvesNonEmpty ==
    /\ [](aiResult # NoResponse =>
            /\ aiResult[1].status = "resolved"
            /\ aiResult[1].message > 0)
    /\ [](aiPc = "done" <=> aiResult # NoResponse)
    /\ <>(aiPc \in {"done", "stalled"})

\* all three providers failed, each in another way, and the canned response
\* was returned
C13_Witness ==
    /\ aiPc = "done"
    /\ aiResult[1].source = "canned"
    /\ aiResult[1].message > 0
    /\ \E i, j, k \in DOMAIN aiConsole :
          /\ aiConsole[i] = <<"HuggingFace", "timed out">>
          /\ aiConsole[j] = <<"FastGPT", "error: TypeError">>
          /\ aiConsole[k] = <<"EducationalAI", "error: HTTP status">>

\* C14: when the delete of a leaveQueue that has ended had failed, the
\* failure was logged and raised to the caller, and isQueued was not cleared
\* while a row of the caller was still in the queue.
C14_FailedLeaveIsRaised ==
    (leaveDone # NoLeave /\ leaveDone[1].error) =>
        /\ leaveDone[1].logged
        /\ leaveDone[1].raised
        /\ (leaveDone[1].isQueuedBefore /\ leaveDone[1].own # {}) =>
               leaveDone[1].isQueuedAfter

\* C15: no row of matchmaking_queue belongs to an entry that match_players
\* has put into a game: both entries of every game it made were deleted by
\* the invocation that made the game.
C15_MatchedEntriesDeleted ==
    \A k \in DOMAIN matchLog :
        \A r \in queue : r.id \notin matchLog[k].entries

\* match_players made a game and left an entry without opponent in the queue
C15_Witness ==
    /\ matchLog # <<>>
    /\ Len(activeGames) = Len(matchLog)
    /\ queue # {}

\* C16: matchmaking_queue holds at most one row of the signed-in user.
C16_AtMostOneRow ==
    Cardinality(RowsOf(queue, Me)) <= 1

\* C17: the games made by one invocation of match_players share no queue
\* entry and no player.
C17_OneGamePerPlayer ==
    \A a, b \in DOMAIN matchLog :
        (a # b /\ matchLog[a].run = matchLog[b].run) =>
            /\ matchLog[a].entries \cap matchLog[b].entries = {}
            /\ {matchLog[a].players[1], matchLog[a].players[2]}
                 \cap {matchLog[b].players[1], matchLog[b].players[2]} = {}

\* C19: from the completion of leaveQueue until joinQueue or simulateMatch
\* is called again, the hook is not matched.
C19_StaysUnmatchedAfterLeave ==
    mmLeft =>
        /\ ~mm.isMatched
        /\ mm.gameId = "null"
        /\ mm.opponent = "null"

\* C20: an unmount that found the user queued called leaveQueue.
C20_UnmountLeavesQueue ==
    (unmountLog # NoUnmount /\ unmountLog[1].isQueued) =>
        unmountLog[1].calledLeaveQueue

\* C18: once two updateUserExp calls for the signed-in user have both
\* completed (and nothing else wrote the row), the stored exp is the initial
\* exp plus both gains.
C18_NoLostUpdate ==
    (/\ Len(ueCalls) = 2
     /\ \A i \in DOMAIN ueCalls : ueCalls[i].pc = "done" /\ ueCalls[i].user = Me
     /\ gameLog = <<>>) =>
        /\ ~profiles[Me].expNull
        /\ profiles[Me].exp
              = expAtStart + ueCalls[1].expGained + ueCalls[2].expGained

(***************************************************************************)
(* C21: cancelled matchmaking                                              *)
(***************************************************************************)
\* the page after Cancel Matchmaking: it shows the lobby, no game is on, and
\* a timeout of handleStartMatch is still pending (nothing clears it)
MatchmakingCancelled ==
    /\ matchTimers > 0
    /\ ~matchmaking
    /\ ~inGame

\* C21: once matchmaking was cancelled, no step puts the page into a game;
\* only a new handleStartMatch ends the cancelled state.
C21_CancelStopsTheTimer ==
    [][MatchmakingCancelled => ~inGame']_vars

(***************************************************************************)
(* C22: skipped words in SpellingBee                                       *)
(***************************************************************************)
\* the review list marks word i correct: answers[index]?.toLowerCase() ===
\* word.word.toLowerCase()
SBMarkedCorrect(s, i) ==
    /\ i <= Len(s.answers)
    /\ toLowerCase(s.answers[i]) = toLowerCase(s.words[i])

\* the game was ended by Skip Word on the last word: a button ended it while
\* time was left, and the answer recorded for the last word is empty
SBEndedBySkip ==
    /\ SBFinished
    /\ endSnapshot # NoSnapshot
    /\ endSnapshot[1].timeLeft > 0
    /\ sb.currentWord < Len(sb.answers)
    /\ sb.answers[sb.currentWord + 1] = <<>>

\* C22: when Skip Word on the last word ended the game, the score is the
\* number of words the review list marks correct, so the skipped word adds
\* nothing whatever the input box held.
C22_SkippedWordNotScored ==
    SBEndedBySkip =>
        /\ sb.score = Cardinality({ i \in 1..Len(sb.words) : SBMarkedCorrect(sb, i) })
        /\ gameResults # NoResults
        /\ gameResults[1].score = sb.score

(***************************************************************************)
(* C23: the question an answer belongs to                                  *)
(***************************************************************************)
\* C23: every answer recorded or scored for question i comes from an option
\* chosen while question i was on screen.
C23_AnswerBelongsToItsQuestion ==
    \A i \in DOMAIN answerOrigin.answers :
        answerOrigin.answers[i] \in {NoQuestion, i - 1}

(***************************************************************************)
(* C24: the question on screen exists                                      *)
(***************************************************************************)
\* C24: in the questions phase there are questions, currentQuestion is the
\* index of one of them, and answers has one place per question.
C24_QuestionIndexInRange ==
    (CBMounted /\ cb.gamePhase = "questions") =>
        /\ Len(cb.questions) > 0
        /\ 0 <= cb.currentQuestion
        /\ cb.currentQuestion < Len(cb.questions)
        /\ Len(cb.questions) = Len(cb.answers)

(***************************************************************************)
(* C25: termination of generateResponse                                    *)
(***************************************************************************)
\* C25: every generateResponse call eventually resolves, whatever the
\* providers do.
C25_AlwaysResolves ==
    <>(aiPc = "done" /\ aiResult # NoResponse)

=============================================================================
